---- MODULE Spec2Model ----
(***************************************************************************)
(* Model of wikidata_pd_scanner.py: the normalisation of the SPARQL rows,  *)
(* the tagging of every record with the jurisdictions whose public-domain  *)
(* threshold it meets (EU70, Mexico100, US_pub), the split of the data     *)
(* frame by jurisdiction and the construction of the ALL export.           *)
(*                                                                         *)
(* Python strings are sequences of one-character strings.  An optional     *)
(* value is a sequence of length at most one: None is << >> and a present  *)
(* value v is << v >>.  A pandas DataFrame is the sequence of its rows.    *)
(***************************************************************************)
EXTENDS Integers, Sequences, FiniteSets, TLC

VARIABLES Y, rows, pc, eu_cutoff, mx_cutoff, us_pub_cutoff, data,
          df_eu, df_mx, df_us, df_all

vars == <<Y, rows, pc, eu_cutoff, mx_cutoff, us_pub_cutoff, data,
          df_eu, df_mx, df_us, df_all>>

\* ------------------------------------------------------------------ bounds
\* longest input sequence of rows explored by Spec
MaxRows == 3
\* longest systematically enumerated date literal explored by SpecRec
MaxLitLen == 2
\* longest systematically enumerated genre string explored by SpecRec
MaxGenreLen == 3

\* ---------------------------------------------------------- Python values
None == << >>
Some(v) == <<v>>

Min(a, b) == IF a <= b THEN a ELSE b

Digits == <<"0", "1", "2", "3", "4", "5", "6", "7", "8", "9">>
IsDigit(c) == \E i \in 1..10 : Digits[i] = c
DigitVal(c) == (CHOOSE i \in 1..10 : Digits[i] = c) - 1

\* variant: the literal parsed whole, without the slice
Slice4Whole(s) == s
\* s[:4]
Slice4(s) == SubSeq(s, 1, Min(4, Len(s)))

\* str.strip() as int() applies it to its argument
RECURSIVE LStrip(_)
LStrip(s) == IF s # << >> /\ Head(s) = " " THEN LStrip(Tail(s)) ELSE s
RECURSIVE RStrip(_)
RStrip(s) ==
  IF s # << >> /\ s[Len(s)] = " " THEN RStrip(SubSeq(s, 1, Len(s) - 1)) ELSE s
PyStrip(s) == RStrip(LStrip(s))

\* the digits of an int() literal after its sign: digits, with single
\* underscores allowed between two digits
PyDigitsOk(b) ==
  /\ b # << >>
  /\ IsDigit(b[1])
  /\ IsDigit(b[Len(b)])
  /\ \A i \in 1..Len(b) : IsDigit(b[i]) \/ b[i] = "_"
  /\ \A i \in 1..(Len(b) - 1) : ~(b[i] = "_" /\ b[i + 1] = "_")

RECURSIVE PyDigitsVal(_, _)
PyDigitsVal(b, acc) ==
  IF b = << >> THEN acc
  ELSE IF Head(b) = "_" THEN PyDigitsVal(Tail(b), acc)
  ELSE PyDigitsVal(Tail(b), acc * 10 + DigitVal(Head(b)))

\* int(s) for a string s: Some(n), or None where Python raises ValueError
PyInt(s) ==
  LET t == PyStrip(s)
      neg == t # << >> /\ Head(t) = "-"
      signed == t # << >> /\ Head(t) \in {"+", "-"}
      b == IF signed THEN Tail(t) ELSE t
  IN IF PyDigitsOk(b)
     THEN Some(IF neg THEN 0 - PyDigitsVal(b, 0) ELSE PyDigitsVal(b, 0))
     ELSE None

\* str.split(sep): all the segments, the empty ones included
RECURSIVE PySplitAcc(_, _, _)
PySplitAcc(s, sep, cur) ==
  IF s = << >> THEN <<cur>>
  ELSE IF Head(s) = sep THEN <<cur>> \o PySplitAcc(Tail(s), sep, << >>)
  ELSE PySplitAcc(Tail(s), sep, Append(cur, Head(s)))
PySplit(s, sep) == PySplitAcc(s, sep, << >>)

\* sep.join(parts)
RECURSIVE PyJoin(_, _)
PyJoin(parts, sep) ==
  IF parts = << >> THEN << >>
  ELSE IF Len(parts) = 1 THEN parts[1]
  ELSE parts[1] \o <<sep>> \o PyJoin(Tail(parts), sep)

\* pat in s (substring search), as Series.str.contains does for a literal
Contains(s, pat) ==
  \E i \in 0..(Len(s) - Len(pat)) : SubSeq(s, i + 1, i + Len(pat)) = pat

\* ------------------------------------------------------ jurisdiction tags
EU70 == <<"E", "U", "7", "0">>
Mexico100 == <<"M", "e", "x", "i", "c", "o", "1", "0", "0">>
US_pub == <<"U", "S", "_", "p", "u", "b">>
\* the three tags in the order sorted() gives them (by code point: E < M < U)
TagsSorted == <<EU70, Mexico100, US_pub>>

InList(x, l) == \E i \in 1..Len(l) : l[i] = x

\* sorted(set(regions))
PySortedSet(regions) == SelectSeq(TagsSorted, LAMBDA t : InList(t, regions))

\* ------------------------------------------------------------- the rows
\* A row of the SPARQL result maps the bound variables to their value; an
\* unbound OPTIONAL variable is no key of the row.
get_val(row, key) == IF key \in DOMAIN row THEN Some(row[key]) ELSE None

extract_year_from_iso(date_literal) ==
  IF date_literal = None \/ date_literal[1] = << >> THEN None
  ELSE PyInt(Slice4(date_literal[1]))

\* variant: the empty segments are kept
GenreListUnfiltered(genres_raw) ==
  IF genres_raw # None /\ genres_raw[1] # << >>
  THEN PySplit(genres_raw[1], "|") ELSE << >>
\* genres = [g for g in (genres_raw.split("|") if genres_raw else []) if g]
GenreList(genres_raw) ==
  SelectSeq(IF genres_raw # None /\ genres_raw[1] # << >>
            THEN PySplit(genres_raw[1], "|") ELSE << >>,
            LAMBDA g : g # << >>)

\* variant: strict comparison with the cutoff
EuPartStrict(death_year, cutoff) ==
  IF death_year # None /\ death_year[1] < cutoff THEN <<EU70>> ELSE << >>
\* variant: strict comparison with the cutoff
UsPartStrict(pubYear, cutoff) ==
  IF pubYear # None /\ pubYear[1] # << >>
     /\ PyInt(pubYear[1]) # None /\ PyInt(pubYear[1])[1] < cutoff
  THEN <<US_pub>> ELSE << >>

\* the regions list built for one row
EuPart(death_year, cutoff) ==
  IF death_year # None /\ death_year[1] <= cutoff THEN <<EU70>> ELSE << >>
MxPart(death_year, cutoff) ==
  IF death_year # None /\ death_year[1] <= cutoff THEN <<Mexico100>> ELSE << >>
UsPart(pubYear, cutoff) ==
  IF pubYear # None /\ pubYear[1] # << >>
     /\ PyInt(pubYear[1]) # None /\ PyInt(pubYear[1])[1] <= cutoff
  THEN <<US_pub>> ELSE << >>

RegionList(death_year, pubYear, eu, mx, us) ==
  EuPart(death_year, eu) \o MxPart(death_year, mx) \o UsPart(pubYear, us)

\* the body of the loop over the rows: one dict of data
NormalizeRecord(r, eu, mx, us) ==
  LET death_year == extract_year_from_iso(get_val(r, "death"))
      pubYear == get_val(r, "pubYear")
      genres == GenreList(get_val(r, "genres"))
      regions == RegionList(death_year, pubYear, eu, mx, us)
  IN [title |-> get_val(r, "workLabel"),
      author |-> get_val(r, "authorLabel"),
      author_qid |-> get_val(r, "author"),
      author_death_year |-> death_year,
      publication_year |-> pubYear,
      language |-> get_val(r, "langLabel"),
      wikipedia_page |-> get_val(r, "wp"),
      genres |-> IF genres # << >> THEN PyJoin(genres, ",") ELSE << >>,
      regions |-> IF regions # << >>
                  THEN PyJoin(PySortedSet(regions), ",") ELSE << >>]

\* ------------------------------------------------------- the data frames
\* variant: the regions field compared with the tag instead of searched
MaskExact(df, tag) == SelectSeq(df, LAMBDA rec : rec.regions = tag)
\* df[df["regions"].str.contains(tag, na=False)]
Mask(df, tag) == SelectSeq(df, LAMBDA rec : Contains(rec.regions, tag))

\* df.assign(region=tag)
AssignRegion(df, tag) ==
  [i \in 1..Len(df) |->
     [f \in DOMAIN df[i] \cup {"region"} |->
        IF f = "region" THEN tag ELSE df[i][f]]]

\* variant: the US_pub frame concatenated first
ConcatFramesUsFirst(eu, mx, us) ==
  AssignRegion(us, US_pub) \o AssignRegion(eu, EU70)
    \o AssignRegion(mx, Mexico100)
\* pd.concat([...], ignore_index=True) of the three tagged frames
ConcatFrames(eu, mx, us) ==
  AssignRegion(eu, EU70) \o AssignRegion(mx, Mexico100)
    \o AssignRegion(us, US_pub)

DupKey(rec) == <<rec.title, rec.author>>

\* df.drop_duplicates(subset=["title", "author"]): keep="first"
RECURSIVE DropFrom(_, _)
DropFrom(df, i) ==
  IF i > Len(df) THEN << >>
  ELSE IF \E j \in 1..(i - 1) : DupKey(df[j]) = DupKey(df[i])
       THEN DropFrom(df, i + 1)
       ELSE <<df[i]>> \o DropFrom(df, i + 1)
\* variant: keep="last"
RECURSIVE DropFromLast(_, _)
DropFromLast(df, i) ==
  IF i > Len(df) THEN << >>
  ELSE IF \E j \in (i + 1)..Len(df) : DupKey(df[j]) = DupKey(df[i])
       THEN DropFromLast(df, i + 1)
       ELSE <<df[i]>> \o DropFromLast(df, i + 1)
DropDuplicatesLast(df) == DropFromLast(df, 1)
DropDuplicates(df) == DropFrom(df, 1)

\* ----------------------------------------------------------- the inputs
Seqs(S, n) == UNION {[1..k -> S] : k \in 0..n}

\* a row with the given optional bindings
MkRow(title, death, pub, genres, qid) ==
  LET keys == {"workLabel", "authorLabel", "author", "langLabel"}
                \cup (IF death # None THEN {"death"} ELSE {})
                \cup (IF pub # None THEN {"pubYear"} ELSE {})
                \cup (IF genres # None THEN {"genres"} ELSE {})
  IN [k \in keys |->
        CASE k = "workLabel" -> title
          [] k = "authorLabel" -> "A1"
          [] k = "author" -> qid
          [] k = "langLabel" -> "fr"
          [] k = "death" -> death[1]
          [] k = "pubYear" -> pub[1]
          [] k = "genres" -> genres[1]]

D1950 == <<"1", "9", "5", "0", "-", "0", "6", "-", "0", "1">>
D1900 == <<"1", "9", "0", "0", "-", "0", "6", "-", "0", "1">>
P1929 == <<"1", "9", "2", "9">>
P1930 == <<"1", "9", "3", "0">>

\* the (death date, publication year) bindings of the rows of Spec: no tag
\* (without and with a publication year), US_pub, EU70, EU70 and US_pub,
\* and all three tags
YearPairs ==
  {<<None, None>>, <<None, Some(P1930)>>, <<None, Some(P1929)>>,
   <<Some(D1950), None>>, <<Some(D1950), Some(P1929)>>,
   <<Some(D1900), Some(P1929)>>}

\* the rows Spec draws its input sequences from
RowPool ==
  {MkRow(t, dp[1], dp[2], None, "Q1") : t \in {"T1", "T2"}, dp \in YearPairs}

TypeInit ==
  /\ pc = "start"
  /\ eu_cutoff = 0 /\ mx_cutoff = 0 /\ us_pub_cutoff = 0
  /\ data = << >>
  /\ df_eu = << >> /\ df_mx = << >> /\ df_us = << >> /\ df_all = << >>

Init ==
  /\ Y \in {2025}
  /\ rows \in Seqs(RowPool, MaxRows)
  /\ TypeInit

\* ----------------------------------------------------------- the actions
\* main, lines 85-89: the cutoffs
Cutoffs ==
  /\ pc = "start"
  /\ eu_cutoff' = Y - 71
  /\ mx_cutoff' = Y - 101
  /\ us_pub_cutoff' = IF Y >= 2025 THEN 1929 ELSE 1929
  /\ pc' = "loop"
  /\ UNCHANGED <<Y, rows, data, df_eu, df_mx, df_us, df_all>>

\* main, lines 97-132: one turn of the loop over the rows
NormalizeRow ==
  /\ pc = "loop"
  /\ Len(data) < Len(rows)
  /\ data' = Append(data, NormalizeRecord(rows[Len(data) + 1],
                                          eu_cutoff, mx_cutoff, us_pub_cutoff))
  /\ UNCHANGED <<Y, rows, pc, eu_cutoff, mx_cutoff, us_pub_cutoff,
                 df_eu, df_mx, df_us, df_all>>

\* main, lines 134-138: the frame and its split by region.  A frame built
\* from an empty list has no column, and df["regions"] raises KeyError.
Partition ==
  /\ pc = "loop"
  /\ Len(data) = Len(rows)
  /\ IF data = << >>
     THEN /\ pc' = "error"
          /\ UNCHANGED <<df_eu, df_mx, df_us>>
     ELSE /\ df_eu' = Mask(data, EU70)
          /\ df_mx' = Mask(data, Mexico100)
          /\ df_us' = Mask(data, US_pub)
          /\ pc' = "export"
  /\ UNCHANGED <<Y, rows, eu_cutoff, mx_cutoff, us_pub_cutoff, data, df_all>>

\* main, lines 147-153: the ALL export
ExportAll ==
  /\ pc = "export"
  /\ df_all' = IF df_eu # << >> \/ df_mx # << >> \/ df_us # << >>
               THEN DropDuplicates(ConcatFrames(df_eu, df_mx, df_us))
               ELSE data
  /\ pc' = "done"
  /\ UNCHANGED <<Y, rows, eu_cutoff, mx_cutoff, us_pub_cutoff, data,
                 df_eu, df_mx, df_us>>

Next == Cutoffs \/ NormalizeRow \/ Partition \/ ExportAll

Spec == Init /\ [][Next]_vars

\* ------------------------------------------------- the inputs of SpecRec
Years == {2024, 2025, 2031}

LitChars == {"1", "9", "-", "x", " "}
GenreChars == {"a", "b", "|"}

\* death-date literals: dates around the cutoffs of Years, literals that
\* int() accepts or rejects, and every short literal over LitChars
DeathLits ==
  {<<"1", "9", "5", "4", "-", "1", "2", "-", "3", "1">>,
   <<"1", "9", "5", "5", "-", "0", "1", "-", "0", "1">>,
   <<"1", "9", "2", "4", "-", "1", "2", "-", "3", "1">>,
   <<"1", "9", "2", "5", "-", "0", "1", "-", "0", "1">>,
   <<"1", "9", "5", "3", "-", "0", "7", "-", "1", "4">>,
   <<"1", "9", "6", "0", "-", "0", "2", "-", "0", "2">>,
   <<"1", "9", "6", "1", "-", "0", "2", "-", "0", "2">>,
   <<"1", "9", "2", "3", "-", "0", "5", "-", "0", "5">>,
   <<"1", "9", "3", "0", "-", "0", "5", "-", "0", "5">>,
   <<"1", "9", "3", "1", "-", "0", "5", "-", "0", "5">>,
   <<"1", "9", "5", "4", "1">>,
   <<"2", "0", "0", "0">>,
   <<"1", "9", "5">>,
   <<" ", "1", "9", "5">>,
   <<"+", "1", "9", "5">>,
   <<"1", "_", "9", "5">>,
   <<"1", "9", "x", "4">>,
   <<"-", "0", "0", "4", "3", "-", "0", "3", "-", "1", "5">>,
   <<"h", "t", "t", "p", ":", "/", "/", "w", "w", "w">>,
   <<"1", "9", "5", "4">>}
    \cup Seqs(LitChars, MaxLitLen)

PubLits ==
  {<<>>,
   <<"1", "9", "2", "9">>,
   <<"1", "9", "3", "0">>,
   <<"1", "9", "0", "0">>,
   <<"x">>,
   <<" ", "1", "9", "2", "9", " ">>,
   <<"-", "5">>,
   <<"1", "9", "_", "2", "9">>,
   <<"1", "9", "2", "9", ".", "0">>,
   <<"0">>,
   <<"+", "1", "9", "2", "9">>,
   <<"1", "9", "2", "9", "0">>}

GenreLits ==
  {<<"a", "|", "b", "|">>,
   <<"|", "a", "|", "|", "b">>,
   <<"a", "b", "|", "a", "b", "|", "a">>,
   <<"a", "|", "a", "|">>}
    \cup Seqs(GenreChars, MaxGenreLen)

Opt(S) == {None} \cup {Some(v) : v \in S}

RecPool ==
  {MkRow("T1", d, p, None, "Q1") : d \in Opt(DeathLits), p \in Opt(PubLits)}
    \cup {MkRow("T1", None, None, g, "Q1") : g \in Opt(GenreLits)}

InitRec ==
  /\ Y \in Years
  /\ rows \in Seqs(RecPool, 1)
  /\ TypeInit

SpecRec == InitRec /\ [][Next]_vars

\* --------------------------------------------------------------- claims
\* The statements below describe the outputs on their own terms: a tag is
\* an item of the comma-separated regions field, an integer literal is
\* described by its shape and its value by the positional sum of its digits.

Tags == {EU70, Mexico100, US_pub}
TagsOf(rec) == {t \in Tags : InList(t, PySplit(rec.regions, ","))}

RECURSIVE Pow10(_)
Pow10(n) == IF n = 0 THEN 1 ELSE 10 * Pow10(n - 1)
RECURSIVE SumOver(_, _, _)
SumOver(S, p, digs) ==
  IF S = {} THEN 0
  ELSE LET m == CHOOSE x \in S : TRUE
       IN DigitVal(p[m]) * Pow10(Cardinality({n \in digs : n > m}))
            + SumOver(S \ {m}, p, digs)

\* p[a..b] are the digits of an integer literal p: blanks, an optional sign,
\* digits (single underscores between digits allowed), blanks
LitShape(p, a, b) ==
  /\ a <= b
  /\ IsDigit(p[a])
  /\ IsDigit(p[b])
  /\ \A m \in a..b :
       IsDigit(p[m]) \/ (p[m] = "_" /\ IsDigit(p[m - 1]) /\ IsDigit(p[m + 1]))
  /\ \A m \in 1..(a - 1) : p[m] = " " \/ (m = a - 1 /\ p[m] \in {"+", "-"})
  /\ \A m \in (b + 1)..Len(p) : p[m] = " "
IsIntLiteral(p) == \E a, b \in 1..Len(p) : LitShape(p, a, b)
LitValue(p) ==
  LET ab == CHOOSE ab \in (1..Len(p)) \X (1..Len(p)) : LitShape(p, ab[1], ab[2])
      digs == {m \in ab[1]..ab[2] : IsDigit(p[m])}
      mag == SumOver(digs, p, digs)
  IN IF ab[1] > 1 /\ p[ab[1] - 1] = "-" THEN 0 - mag ELSE mag

\* the first (at most) 4 characters of a literal
Prefix4(s) == [i \in 1..(IF Len(s) < 4 THEN Len(s) ELSE 4) |-> s[i]]

Recs == 1..Len(data)

\* sub lists the elements of full at the indices idx, each once, in order
SubseqAt(sub, full, idx) ==
  /\ Len(sub) = Cardinality(idx)
  /\ \A i \in idx : sub[Cardinality({j \in idx : j <= i})] = full[i]

\* C1: for every current year Y, a record is tagged EU70 iff its author
\* death year is present and <= Y - 71, and Mexico100 iff it is present and
\* <= Y - 101; so a Mexico100 record is an EU70 record, and a record without
\* death year has neither tag.
C1_DeathYearTags ==
  \A k \in Recs :
    LET dy == data[k].author_death_year
        tags == TagsOf(data[k])
    IN /\ (EU70 \in tags) <=> (dy # None /\ dy[1] <= Y - 71)
       /\ (Mexico100 \in tags) <=> (dy # None /\ dy[1] <= Y - 101)
       /\ (Mexico100 \in tags) => (EU70 \in tags)
       /\ (dy = None) => (EU70 \notin tags /\ Mexico100 \notin tags)

\* a record whose author died exactly Y - 71 years is EU70 and not Mexico100
C1_Witness ==
  \E k \in Recs :
    /\ data[k].author_death_year = Some(Y - 71)
    /\ EU70 \in TagsOf(data[k])
    /\ Mexico100 \notin TagsOf(data[k])

\* C2: a record is tagged US_pub iff its publication year is present, is an
\* integer literal and is <= 1929, whatever the current year; the cutoff in
\* use is 1929 for every Y.
C2_PublicationTag ==
  /\ pc # "start" => us_pub_cutoff = 1929
  /\ \A k \in Recs :
       LET py == data[k].publication_year
       IN (US_pub \in TagsOf(data[k]))
            <=> (py # None /\ IsIntLiteral(py[1]) /\ LitValue(py[1]) <= 1929)

\* 1929 is tagged under a current year before 2025
C2_Witness ==
  \E k \in Recs :
    /\ Y < 2025
    /\ data[k].publication_year = Some(P1929)
    /\ US_pub \in TagsOf(data[k])

\* C9: normalising never fails (every row yields its record); the author
\* death year is the integer the first (at most) 4 characters of the date
\* literal denote, and is absent when the literal is absent or they denote
\* none; a row with a malformed literal only loses the tags of that field.
C9_Normalize ==
  /\ pc \in {"export", "done"} => Len(data) = Len(rows)
  /\ pc = "error" => rows = << >>
  /\ \A k \in Recs :
       LET lit == get_val(rows[k], "death")
           pub == get_val(rows[k], "pubYear")
           dy == data[k].author_death_year
           tags == TagsOf(data[k])
       IN /\ lit = None => dy = None
          /\ lit # None =>
               IF IsIntLiteral(Prefix4(lit[1]))
               THEN dy = Some(LitValue(Prefix4(lit[1])))
               ELSE dy = None
          /\ dy = None => (EU70 \notin tags /\ Mexico100 \notin tags)
          /\ data[k].publication_year = pub
          /\ (pub # None /\ ~IsIntLiteral(pub[1])) => US_pub \notin tags

\* a date longer than 4 characters gives its year, and the row, whose
\* publication year is malformed, is emitted with EU70 and without US_pub
C9_Witness ==
  \E k \in Recs :
    /\ pc = "done"
    /\ data[k].author_death_year # None
    /\ Len(get_val(rows[k], "death")[1]) > 4
    /\ data[k].publication_year # None
    /\ ~IsIntLiteral(data[k].publication_year[1])
    /\ TagsOf(data[k]) = {EU70}

\* the labels of the genres field of a record
GenreLabels(rec) == IF rec.genres = << >> THEN << >> ELSE PySplit(rec.genres, ",")

GenreKept(raw) ==
  {i \in 1..Len(raw) :
     \/ raw[i] # "|"
     \/ /\ i < Len(raw) /\ raw[i + 1] # "|"
        /\ \E j \in 1..(i - 1) : raw[j] # "|"}

KeyOf(rec) == <<rec.title, rec.author>>
\* a row of ALL without its region column
Body(row) == [f \in DOMAIN row \ {"region"} |-> row[f]]
InAll(rec) == \E m \in 1..Len(df_all) : Body(df_all[m]) = rec
Tagged(k) == TagsOf(data[k]) # {}
Frame(t) == CASE t = EU70 -> df_eu [] t = Mexico100 -> df_mx [] t = US_pub -> df_us

\* C3: for a non-empty input the subset of each tag holds exactly the
\* records carrying the tag, each once and in input order; a record without
\* death year and publication year is in no subset but stays in the data.
C3_Subsets ==
  /\ rows # << >> => pc # "error"
  /\ pc \in {"export", "done"} =>
       /\ Len(data) = Len(rows)
       /\ \A t \in Tags :
            SubseqAt(Frame(t), data, {k \in Recs : t \in TagsOf(data[k])})
       /\ \A k \in Recs :
            (data[k].author_death_year = None /\ data[k].publication_year = None)
              => \A t \in Tags : ~InList(data[k], Frame(t))

\* the same record twice in the input is twice in the subsets of both of its
\* tags, and a record without years is in none
C3_Witness ==
  /\ pc = "done"
  /\ \E i, j, k \in Recs :
       /\ i < j /\ data[i] = data[j]
       /\ TagsOf(data[i]) = {EU70, US_pub}
       /\ Len(df_eu) = 2 /\ Len(df_us) = 2 /\ Len(df_mx) = 0
       /\ data[k].author_death_year = None /\ data[k].publication_year = None

\* the concatenation EU70 subset, Mexico100 subset, US_pub subset
CatLen == Len(df_eu) + Len(df_mx) + Len(df_us)
CatRec(i) ==
  IF i <= Len(df_eu) THEN df_eu[i]
  ELSE IF i <= Len(df_eu) + Len(df_mx) THEN df_mx[i - Len(df_eu)]
  ELSE df_us[i - Len(df_eu) - Len(df_mx)]
CatFirst == {i \in 1..CatLen :
               \A j \in 1..(i - 1) : KeyOf(CatRec(j)) # KeyOf(CatRec(i))}

\* C4: when some record carries a tag, ALL is the concatenation of the three
\* subsets with only the first row of each (title, author) kept: no key
\* twice, every row tagged, every key of a tagged record present.
C4_Union ==
  (pc = "done" /\ \E k \in Recs : Tagged(k)) =>
    /\ Len(df_all) = Cardinality(CatFirst)
    /\ \A i \in CatFirst :
         Body(df_all[Cardinality({j \in CatFirst : j <= i})]) = CatRec(i)
    /\ \A m, n \in 1..Len(df_all) :
         KeyOf(df_all[m]) = KeyOf(df_all[n]) => m = n
    /\ \A m \in 1..Len(df_all) : TagsOf(df_all[m]) # {}
    /\ \A k \in Recs :
         Tagged(k) => \E m \in 1..Len(df_all) : KeyOf(df_all[m]) = KeyOf(data[k])

\* rows were dropped from the concatenation and two keys remain
C4_Witness ==
  /\ pc = "done"
  /\ Len(df_all) = 2
  /\ CatLen > 3
  /\ \E i, j \in Recs : KeyOf(data[i]) = KeyOf(data[j]) /\ data[i] # data[j]
                          /\ Tagged(i) /\ Tagged(j)

\* C5 as stated: of two distinct records with the same (title, author), ALL
\* holds exactly one, the first in input order.
C5_FirstInInputOrder ==
  pc = "done" =>
    \A i, j \in Recs :
      (i < j /\ KeyOf(data[i]) = KeyOf(data[j]) /\ data[i] # data[j])
        => (InAll(data[i]) /\ ~InAll(data[j]))

MinOf(S) == CHOOSE x \in S : \A y \in S : x <= y

\* C5 as amended: of two distinct records with the same (title, author),
\* ALL holds both when no record of the input is tagged (the fallback);
\* otherwise it holds no row of that key when no record of the key is
\* tagged, and else exactly one: the first in input order among the records
\* of the key tagged EU70 or, when there is none, the first in input order
\* among those tagged US_pub.
C5_FirstInConcatOrder ==
  pc = "done" =>
    \A i, j \in Recs :
      (i < j /\ KeyOf(data[i]) = KeyOf(data[j]) /\ data[i] # data[j]) =>
        LET K == {k \in Recs : KeyOf(data[k]) = KeyOf(data[i]) /\ Tagged(k)}
            E == {k \in K : EU70 \in TagsOf(data[k])}
            R == {m \in 1..Len(df_all) : KeyOf(df_all[m]) = KeyOf(data[i])}
        IN IF \A k \in Recs : ~Tagged(k)
           THEN InAll(data[i]) /\ InAll(data[j]) /\ df_all = data
           ELSE IF K = {} THEN R = {}
           ELSE /\ Cardinality(R) = 1
                /\ \A m \in R :
                     Body(df_all[m]) = data[MinOf(IF E # {} THEN E ELSE K)]

\* the first of two records of a key is tagged US_pub only, the second is
\* tagged EU70: ALL holds the second and not the first
C5_Witness ==
  /\ pc = "done"
  /\ \E i, j \in Recs :
       /\ i < j /\ KeyOf(data[i]) = KeyOf(data[j])
       /\ TagsOf(data[i]) = {US_pub}
       /\ EU70 \in TagsOf(data[j])
       /\ InAll(data[j]) /\ ~InAll(data[i])

\* C6: a row of ALL included for a jurisdiction match records one region
\* tag, the first of EU70, Mexico100, US_pub that its own record matches.
C6_RegionPriority ==
  (pc = "done" /\ \E k \in Recs : Tagged(k)) =>
    \A m \in 1..Len(df_all) :
      LET tags == TagsOf(df_all[m])
      IN /\ "region" \in DOMAIN df_all[m]
         /\ df_all[m].region \in tags
         /\ df_all[m].region =
              (IF EU70 \in tags THEN EU70
               ELSE IF Mexico100 \in tags THEN Mexico100 ELSE US_pub)

\* ALL holds a row recorded under US_pub and a row matching all three
\* jurisdictions recorded under EU70
C6_Witness ==
  /\ pc = "done"
  /\ \E m, n \in 1..Len(df_all) :
       /\ "region" \in DOMAIN df_all[m]
       /\ df_all[m].region = US_pub
       /\ TagsOf(df_all[n]) = Tags
       /\ df_all[n].region = EU70

\* C7: for every input in which no record matches a jurisdiction rule, the
\* run ends with ALL equal to the full input (same records, same order, no
\* deduplication) and the three subsets empty.
C7_Fallback ==
  (pc \in {"done", "error"} /\ \A k \in Recs : ~Tagged(k)) =>
    /\ pc = "done"
    /\ df_all = data
    /\ Len(df_all) = Len(rows)
    /\ df_eu = << >> /\ df_mx = << >> /\ df_us = << >>

\* C7 on the non-empty inputs: with no record tagged, ALL is the data
C7_FallbackNonEmpty ==
  (pc \in {"done", "error"} /\ rows # << >> /\ \A k \in Recs : ~Tagged(k)) =>
    /\ pc = "done"
    /\ df_all = data
    /\ Len(df_all) = Len(rows)
    /\ df_eu = << >> /\ df_mx = << >> /\ df_us = << >>

\* C8: a zero-length input is processed without error and gives four
\* zero-length sets.
C8_EmptyInput ==
  (rows = << >> /\ pc \notin {"start", "loop"}) =>
    /\ pc = "done"
    /\ df_eu = << >> /\ df_mx = << >> /\ df_us = << >> /\ df_all = << >>

====
